---- MODULE Spec2Model ----
(***************************************************************************)
(* niriswitcher: the window/workspace state-tracking engine                *)
(* (NiriWindowManager in src/src/niriswitcher/_wm.py).                     *)
(*                                                                         *)
(* The manager owns two dicts (windows, workspaces), two scalars           *)
(* (active_workspace, active_window), two "loaded" flags and a failure     *)
(* counter.  One async line read is queued on the event socket; its        *)
(* completion callback _on_line_read decodes the line, applies the event   *)
(* (_process_event), and queues the next read, or reconnects on a          *)
(* GLib.Error.  A Python exception that is not a GLib.Error escapes the    *)
(* callback: the GLib main loop reports it and goes on, and whatever the   *)
(* callback had not yet done (queueing the next read) is not done.         *)
(*                                                                         *)
(* Window and workspace payloads carry the fields of niri's wire format    *)
(* that the store's bookkeeping reads (id, workspace_id, app_id, title,    *)
(* is_urgent, is_focused, idx, output); name and is_active do not          *)
(* influence any map key, flag or counter and are left out of the records. *)
(*                                                                         *)
(* NiriswicherApp (src/src/niriswitcher/_app.py) keeps one CycleSession:   *)
(* the cycleApplication DBus method focuses the windows of an application  *)
(* one after the other, and a timeout ends the session.                    *)
(*                                                                         *)
(* A Python object has an identity apart from its fields.  A Window record *)
(* or Workspace record carries it as ref, the clock reading of the         *)
(* completion that constructed it: two objects with the same id are        *)
(* constructed by different completions, and every completion that         *)
(* constructs one reads the clock.                                         *)
(***************************************************************************)
EXTENDS Integers, Sequences, FiniteSets, TLC

\* ------------------------------------------------------------------ bounds
\* time.time() readings are capped: an event that reads the clock is not
\* applied once the clock would pass MaxTime.
MaxTime == 2
\* read failures in a row (without a line read in between) that are explored
MaxFailures == 4
\* lines the compositor writes to the socket in the buffered-stream model
MaxLines == 4

\* --------------------------------------------------------------- constants
\* Python's None (a null workspace_id / id in a payload, a missing object)
Null == -2
\* the "no workspace / no window" sentinel of the properties' default
NoId == -1
\* the 1 (second) added to the focus time of the focused entry of a snapshot,
\* in clock ticks: two consecutive clock readings are at least 1 tick (less
\* than a second) apart
Second == 2
\* "if self._n_failed_connection_attempts < 3"
RetryLimit == 3

WindowIds == {1, 2}
WorkspaceIds == {1, 2}
Outputs == {"eDP-1", "HDMI-1"}
\* the output of a workspace that is on none (None)
NoOutput == "None"

\* ------------------------------------------------- Python dict (ordered)
\* A dict is the sequence of its items in insertion order.
Keys(d) == {d[i].key : i \in DOMAIN d}

Get(d, k) == d[CHOOSE i \in DOMAIN d : d[i].key = k].val

\* d[k] = v : an existing key keeps its position, a new key goes last
Put(d, k, v) ==
    IF k \in Keys(d)
    THEN [i \in DOMAIN d |-> IF d[i].key = k THEN [key |-> k, val |-> v] ELSE d[i]]
    ELSE Append(d, [key |-> k, val |-> v])

\* del d[k]
Del(d, k) == SelectSeq(d, LAMBDA e : e.key # k)

Values(d) == [i \in DOMAIN d |-> d[i].val]

\* ----------------------------------------------------------- the objects
\* Window.__init__ taking the id from the payload's workspace_id
Window_swaps_ids(window, last_focus_time, ref) ==
    [ref             |-> ref,
     id              |-> IF window.workspace_id # Null THEN window.workspace_id ELSE NoId,
     workspace_id    |-> window.id,
     app_id          |-> window.app_id,
     title           |-> window.title,
     is_urgent       |-> FALSE,
     last_focus_time |-> last_focus_time]

\* Window.__init__(window, last_focus_time): a new object (ref); is_urgent is
\* not passed to super().__init__ and keeps its default
Window(window, last_focus_time, ref) ==
    [ref             |-> ref,
     id              |-> window.id,
     workspace_id    |-> IF window.workspace_id # Null THEN window.workspace_id ELSE NoId,
     app_id          |-> window.app_id,
     title           |-> window.title,
     is_urgent       |-> FALSE,
     last_focus_time |-> last_focus_time]

\* Window.update(new), on the object itself: "if title := new.get(...)" is
\* false for "", "if workspace_id := new.get(...)" is false for None and 0;
\* is_urgent is not read
Window_update(self, new, t) ==
    [self EXCEPT !.last_focus_time = t,
                 !.title = IF new.title # "" THEN new.title ELSE self.title,
                 !.workspace_id = IF new.workspace_id # Null /\ new.workspace_id # 0
                                  THEN new.workspace_id ELSE NoId]

\* Workspace.__init__(workspace, last_focus_time): a new object (ref)
Workspace(workspace, last_focus_time, ref) ==
    [ref             |-> ref,
     id              |-> workspace.id,
     idx             |-> workspace.idx,
     output          |-> workspace.output,
     is_focused      |-> workspace.is_focused,
     is_urgent       |-> FALSE,
     last_focus_time |-> last_focus_time]

\* f"{self.output}-{self.idx}" also for a workspace on no output
identifier_formats_none(self) == self.output \o "-" \o ToString(self.idx)

\* Workspace.identifier
identifier(self) ==
    IF self.output # NoOutput
    THEN self.output \o "-" \o ToString(self.idx)
    ELSE ToString(self.idx)

\* ------------------------------------------------------------ the events
Titles == {"", "a", "b"}

\* the window payloads of the wire format
AllWindowPayloads ==
    [id : WindowIds, workspace_id : WorkspaceIds \cup {0, Null}, app_id : {"term"},
     title : Titles, is_urgent : BOOLEAN, is_focused : BOOLEAN]

\* the payloads of a window titled "a" that does not ask for attention, on a
\* workspace or on none
WindowPayloads ==
    {w \in AllWindowPayloads : w.workspace_id # 0 /\ w.title = "a" /\ ~w.is_urgent}

\* the workspace payloads of the wire format; a workspace's idx is its
\* position on its output
AllWorkspacePayloads ==
    {w \in [id : WorkspaceIds, idx : {0, 1}, output : Outputs \cup {NoOutput},
            is_focused : BOOLEAN] : w.idx = w.id - 1}

\* workspace 1 is on the first output, workspace 2 on either
WorkspacePayloads ==
    {w \in AllWorkspacePayloads : w.output # NoOutput /\ (w.id = 1 => w.output = "eDP-1")}

\* window payloads that carry no is_focused field
UnmarkedWindowPayloads ==
    [id : WindowIds, workspace_id : WorkspaceIds \cup {Null}, app_id : {"term"}, title : {"a"},
     is_urgent : {FALSE}]

\* window["is_focused"] can be evaluated and is true
IsMarkedFocused(window) == "is_focused" \in DOMAIN window /\ window.is_focused

\* snapshots of two windows, entries without is_focused among them
UnmarkedWindowLists ==
    {p \in (WindowPayloads \cup UnmarkedWindowPayloads)
             \X (WindowPayloads \cup UnmarkedWindowPayloads) :
        /\ p[1].id < p[2].id
        /\ ~(IsMarkedFocused(p[1]) /\ IsMarkedFocused(p[2]))
        /\ \E i \in 1..2 : p[i] \in UnmarkedWindowPayloads}

\* a snapshot lists each window once, in the order of the ids, and the
\* compositor focuses at most one window
WindowLists ==
    {<<>>} \cup {<<a>> : a \in WindowPayloads}
           \cup {p \in WindowPayloads \X WindowPayloads :
                    p[1].id < p[2].id /\ ~(p[1].is_focused /\ p[2].is_focused)}

\* a snapshot lists each workspace once, in the order of the ids; there is at
\* least one workspace, and the compositor focuses at most one
AllWorkspaceLists ==
    {<<a>> : a \in AllWorkspacePayloads}
    \cup {p \in AllWorkspacePayloads \X AllWorkspacePayloads :
                    p[1].id < p[2].id /\ ~(p[1].is_focused /\ p[2].is_focused)}

WorkspaceLists ==
    {list \in AllWorkspaceLists : \A i \in DOMAIN list : list[i] \in WorkspacePayloads}

\* the events of the wire format, one set per tag
AllWorkspacesChanged == [tag : {"WorkspacesChanged"}, workspaces : AllWorkspaceLists]
WorkspacesChanged == [tag : {"WorkspacesChanged"}, workspaces : WorkspaceLists]
WindowsChanged == [tag : {"WindowsChanged"}, windows : WindowLists]
UnmarkedWindowsChanged == [tag : {"WindowsChanged"}, windows : UnmarkedWindowLists]
WindowClosed == [tag : {"WindowClosed"}, id : WindowIds]
WindowOpenedOrChanged == [tag : {"WindowOpenedOrChanged"}, window : AllWindowPayloads]
WindowFocusChanged == [tag : {"WindowFocusChanged"}, id : WindowIds \cup {Null}]
WorkspaceActivated == [tag : {"WorkspaceActivated"}, id : WorkspaceIds]
WorkspaceUrgencyChanged ==
    [tag : {"WorkspaceUrgencyChanged"}, id : WorkspaceIds, urgent : BOOLEAN]
WindowUrgencyChanged == [tag : {"WindowUrgencyChanged"}, id : WindowIds, urgent : BOOLEAN]
WorkspaceActiveWindowChanged ==
    [tag : {"WorkspaceActiveWindowChanged"}, workspace_id : WorkspaceIds,
     active_window_id : WindowIds \cup {Null}]
\* a tag the manager does not know
KeyboardLayoutsChanged == [tag : {"KeyboardLayoutsChanged"}]

AllEvents ==
    AllWorkspacesChanged \cup WindowsChanged \cup UnmarkedWindowsChanged \cup WindowClosed \cup WindowOpenedOrChanged
    \cup WindowFocusChanged \cup WorkspaceActivated \cup WorkspaceUrgencyChanged
    \cup WindowUrgencyChanged \cup WorkspaceActiveWindowChanged \cup KeyboardLayoutsChanged

\* the events about windows; _process_event reads no is_focused from a
\* WindowOpenedOrChanged payload, so one value stands for both
WindowEvents ==
    WindowsChanged \cup WindowClosed \cup WindowFocusChanged
    \cup {e \in WindowOpenedOrChanged : e.window \in WindowPayloads /\ ~e.window.is_focused}

\* the events read in Spec: the snapshots, the window and workspace events,
\* and two objects that no branch of _process_event matches
Events ==
    WindowEvents \cup WorkspacesChanged \cup WorkspaceActivated
    \cup {e \in WorkspaceActiveWindowChanged : e.workspace_id = 1 /\ e.active_window_id = 1}
    \cup KeyboardLayoutsChanged

\* --------------------------------------------------------------- the store
VARIABLES
    windows,            \* self.windows : dict[int, Window]
    workspaces,         \* self.workspaces : dict[int, Workspace]
    active_workspace,   \* GObject property, default -1
    active_window,      \* GObject property, default -1
    windows_loaded,     \* self._windows_loaded
    workspaces_loaded,  \* self._workspaces_loaded
    n_failed_connection_attempts,
    pending_reads,      \* async line reads queued and not yet completed
    error_logs,         \* logger.error calls made so far
    now,                \* the latest reading of time.time()
    last,               \* what the latest read completion (or command, or
                        \* the construction) did, and the window ids
                        \* tracked when it began
    consecutive_failures, \* read failures since the latest line that was read
    inbox,              \* buffered-stream model: lines written and not yet read
    arrived,            \* buffered-stream model: lines written so far
    applied,            \* buffered-stream model: arrival numbers of the lines read
    cycle_session       \* NiriswicherApp._cycle_session, None or a CycleSession

vars == <<windows, workspaces, active_workspace, active_window, windows_loaded,
          workspaces_loaded, n_failed_connection_attempts, pending_reads, error_logs,
          now, last, consecutive_failures, inbox, arrived, applied, cycle_session>>

\* the store as one value
Store ==
    [windows           |-> windows,
     workspaces        |-> workspaces,
     active_workspace  |-> active_workspace,
     active_window     |-> active_window,
     windows_loaded    |-> windows_loaded,
     workspaces_loaded |-> workspaces_loaded]

\* a notification: the signal and the ids of the objects it carries
Emit(signal, args) == [signal |-> signal, args |-> args]

\* the outcome of a piece of code: the store, what was emitted, the exception
\* that ended it ("none" when it returned), and whether it read the clock
Outcome(S, emitted, raised, timed) ==
    [store |-> S, emitted |-> emitted, raised |-> raised, timed |-> timed]

\* on_workspaces_changed: the loop over workspace_changed["workspaces"]
RECURSIVE workspaces_loop(_, _, _, _)
workspaces_loop(S, list, i, t) ==
    IF i > Len(list) THEN S
    ELSE LET workspace == list[i]
             last_focus_time == IF workspace.is_focused THEN t + Second ELSE t
             S1 == IF workspace.is_focused
                   THEN [S EXCEPT !.active_workspace = workspace.id]
                   ELSE S
             S2 == [S1 EXCEPT !.workspaces =
                        Put(S1.workspaces, workspace.id, Workspace(workspace, last_focus_time, t))]
         IN workspaces_loop(S2, list, i + 1, t)

\* on_workspaces_changed clearing the map first, as on_windows_changed does
on_workspaces_changed_clears(S, workspace_changed, t) ==
    [workspaces_loop([S EXCEPT !.workspaces = <<>>], workspace_changed.workspaces, 1, t)
        EXCEPT !.workspaces_loaded = TRUE]

on_workspaces_changed(S, workspace_changed, t) ==
    [workspaces_loop(S, workspace_changed.workspaces, 1, t) EXCEPT !.workspaces_loaded = TRUE]

\* on_windows_changed: the loop over windows_changed["windows"];
\* window["is_focused"] is a KeyError for an entry without the field, which
\* ends the loop with the entries before it stored
RECURSIVE windows_loop(_, _, _, _)
windows_loop(S, list, i, t) ==
    IF i > Len(list) THEN Outcome(S, <<>>, "none", TRUE)
    ELSE LET window == list[i]
             last_focus_time == IF window.is_focused THEN t + Second ELSE t
             S1 == IF window.is_focused
                   THEN [S EXCEPT !.active_window = window.id]
                   ELSE S
             S2 == [S1 EXCEPT !.windows =
                        Put(S1.windows, window.id, Window(window, last_focus_time, t))]
         IN IF "is_focused" \notin DOMAIN window
            THEN Outcome(S, <<>>, "KeyError", TRUE)
            ELSE windows_loop(S2, list, i + 1, t)

\* on_windows_changed without self.windows.clear()
on_windows_changed_keeps(S, windows_changed, t) ==
    LET looped == windows_loop(S, windows_changed.windows, 1, t)
    IN IF looped.raised # "none" THEN looped
       ELSE Outcome([looped.store EXCEPT !.windows_loaded = TRUE], <<>>, "none", TRUE)

\* on_windows_changed: clear, loop, set the flag
on_windows_changed(S, windows_changed, t) ==
    LET looped == windows_loop([S EXCEPT !.windows = <<>>], windows_changed.windows, 1, t)
    IN IF looped.raised # "none" THEN looped
       ELSE Outcome([looped.store EXCEPT !.windows_loaded = TRUE], <<>>, "none", TRUE)

\* window_closed without the "if window_id in self.windows" guard
window_closed_unguarded(S, obj) ==
    IF obj.id \in Keys(S.windows)
    THEN Outcome([S EXCEPT !.windows = Del(S.windows, obj.id)],
                 <<Emit("window-closed", <<Get(S.windows, obj.id).id>>)>>, "none", FALSE)
    ELSE Outcome(S, <<>>, "KeyError", FALSE)

\* window_closed removing every window along with the closed one
window_closed_clears(S, obj) ==
    IF obj.id \in Keys(S.windows)
    THEN Outcome([S EXCEPT !.windows = <<>>],
                 <<Emit("window-closed", <<Get(S.windows, obj.id).id>>)>>, "none", FALSE)
    ELSE Outcome(S, <<>>, "none", FALSE)

\* the WindowClosed branch
window_closed(S, obj) ==
    IF obj.id \in Keys(S.windows)
    THEN Outcome([S EXCEPT !.windows = Del(S.windows, obj.id)],
                 <<Emit("window-closed", <<Get(S.windows, obj.id).id>>)>>, "none", FALSE)
    ELSE Outcome(S, <<>>, "none", FALSE)

\* opened_or_changed without the emit of "window-opened"
opened_or_changed_silent(S, obj, t) ==
    IF obj.window.id \in Keys(S.windows)
    THEN Outcome([S EXCEPT !.windows =
                     Put(S.windows, obj.window.id,
                         Window_update(Get(S.windows, obj.window.id), obj.window, t))],
                 <<>>, "none", TRUE)
    ELSE Outcome([S EXCEPT !.windows = Put(S.windows, obj.window.id, Window(obj.window, t, t))],
                 <<>>, "none", TRUE)

\* opened_or_changed storing a new Window for a tracked id instead of
\* updating the one it has
opened_or_changed_replaces(S, obj, t) ==
    IF obj.window.id \in Keys(S.windows)
    THEN Outcome([S EXCEPT !.windows = Put(S.windows, obj.window.id, Window(obj.window, t, t))],
                 <<>>, "none", TRUE)
    ELSE Outcome([S EXCEPT !.windows = Put(S.windows, obj.window.id, Window(obj.window, t, t))],
                 <<Emit("window-opened", <<obj.window.id>>)>>, "none", TRUE)

\* the WindowOpenedOrChanged branch
opened_or_changed(S, obj, t) ==
    IF obj.window.id \in Keys(S.windows)
    THEN Outcome([S EXCEPT !.windows =
                     Put(S.windows, obj.window.id,
                         Window_update(Get(S.windows, obj.window.id), obj.window, t))],
                 <<>>, "none", TRUE)
    ELSE Outcome([S EXCEPT !.windows = Put(S.windows, obj.window.id, Window(obj.window, t, t))],
                 <<Emit("window-opened", <<obj.window.id>>)>>, "none", TRUE)

\* window_focus_changed recording the id as the active window before the
\* "if window_id in self.windows" test
window_focus_changed_unguarded(S, obj, t) ==
    IF obj.id \in Keys(S.windows)
    THEN Outcome([S EXCEPT !.windows =
                     Put(S.windows, obj.id,
                         [Get(S.windows, obj.id) EXCEPT !.last_focus_time = t]),
                            !.active_window = obj.id],
                 <<Emit("window-focus-changed", <<Get(S.windows, obj.id).id>>)>>,
                 "none", TRUE)
    ELSE Outcome([S EXCEPT !.active_window = obj.id], <<>>, "none", FALSE)

\* the WindowFocusChanged branch
window_focus_changed(S, obj, t) ==
    IF obj.id \in Keys(S.windows)
    THEN Outcome([S EXCEPT !.windows =
                     Put(S.windows, obj.id,
                         [Get(S.windows, obj.id) EXCEPT !.last_focus_time = t]),
                            !.active_window = obj.id],
                 <<Emit("window-focus-changed", <<Get(S.windows, obj.id).id>>)>>,
                 "none", TRUE)
    ELSE Outcome(S, <<>>, "none", FALSE)

\* the WorkspaceActivated branch: active_workspace is set before the lookup
\* self.workspaces[self.active_workspace], a KeyError on a missing key
workspace_activated(S, obj, t) ==
    LET previous == S.active_workspace
        S1 == [S EXCEPT !.active_workspace = obj.id]
    IN IF obj.id \in Keys(S1.workspaces)
       THEN Outcome([S1 EXCEPT !.workspaces =
                        Put(S1.workspaces, obj.id,
                            [Get(S1.workspaces, obj.id) EXCEPT !.last_focus_time = t])],
                    <<Emit("workspace-activated",
                           <<Get(S1.workspaces, obj.id).id,
                             IF previous \in Keys(S1.workspaces)
                             THEN Get(S1.workspaces, previous).id ELSE Null>>)>>,
                    "none", TRUE)
       ELSE Outcome(S1, <<>>, "KeyError", FALSE)

\* workspace_urgency_changed marking the workspace urgent whatever the event
\* carries
workspace_urgency_changed_sets(S, obj) ==
    IF obj.id \in Keys(S.workspaces)
    THEN Outcome([S EXCEPT !.workspaces =
                     Put(S.workspaces, obj.id,
                         [Get(S.workspaces, obj.id) EXCEPT !.is_urgent = TRUE])],
                 <<Emit("workspace-urgency-changed", <<Get(S.workspaces, obj.id).id>>)>>,
                 "none", FALSE)
    ELSE Outcome(S, <<>>, "none", FALSE)

\* the WorkspaceUrgencyChanged branch
workspace_urgency_changed(S, obj) ==
    IF obj.id \in Keys(S.workspaces)
    THEN Outcome([S EXCEPT !.workspaces =
                     Put(S.workspaces, obj.id,
                         [Get(S.workspaces, obj.id) EXCEPT !.is_urgent = obj.urgent])],
                 <<Emit("workspace-urgency-changed", <<Get(S.workspaces, obj.id).id>>)>>,
                 "none", FALSE)
    ELSE Outcome(S, <<>>, "none", FALSE)

\* the WindowUrgencyChanged branch
window_urgency_changed(S, obj) ==
    IF obj.id \in Keys(S.windows)
    THEN Outcome([S EXCEPT !.windows =
                     Put(S.windows, obj.id,
                         [Get(S.windows, obj.id) EXCEPT !.is_urgent = obj.urgent])],
                 <<Emit("window-urgency-changed", <<Get(S.windows, obj.id).id>>)>>,
                 "none", FALSE)
    ELSE Outcome(S, <<>>, "none", FALSE)

\* process_event with a lookup of the handler that fails for a tag without one
process_event_strict(S, obj, t) ==
    CASE obj.tag = "WorkspacesChanged" ->
           Outcome(on_workspaces_changed(S, obj, t), <<>>, "none", TRUE)
      [] obj.tag = "WindowsChanged" -> on_windows_changed(S, obj, t)
      [] obj.tag = "WindowClosed" -> window_closed(S, obj)
      [] obj.tag = "WindowOpenedOrChanged" -> opened_or_changed(S, obj, t)
      [] obj.tag = "WindowFocusChanged" -> window_focus_changed(S, obj, t)
      [] obj.tag = "WorkspaceActivated" -> workspace_activated(S, obj, t)
      [] obj.tag = "WorkspaceUrgencyChanged" -> workspace_urgency_changed(S, obj)
      [] obj.tag = "WindowUrgencyChanged" -> window_urgency_changed(S, obj)
      [] OTHER -> Outcome(S, <<>>, "KeyError", FALSE)

\* _process_event: the elif chain, one branch per tag; an object no branch
\* matches (WorkspaceActiveWindowChanged included) falls through
process_event(S, obj, t) ==
    CASE obj.tag = "WorkspacesChanged" ->
           Outcome(on_workspaces_changed(S, obj, t), <<>>, "none", TRUE)
      [] obj.tag = "WindowsChanged" -> on_windows_changed(S, obj, t)
      [] obj.tag = "WindowClosed" -> window_closed(S, obj)
      [] obj.tag = "WindowOpenedOrChanged" -> opened_or_changed(S, obj, t)
      [] obj.tag = "WindowFocusChanged" -> window_focus_changed(S, obj, t)
      [] obj.tag = "WorkspaceActivated" -> workspace_activated(S, obj, t)
      [] obj.tag = "WorkspaceUrgencyChanged" -> workspace_urgency_changed(S, obj)
      [] obj.tag = "WindowUrgencyChanged" -> window_urgency_changed(S, obj)
      [] OTHER -> Outcome(S, <<>>, "none", FALSE)

\* ------------------------------------------------------------- the queries
\* what a query gives: its value, or the exception it raised
Returns(value) == [raised |-> "none", value |-> value]
Raises(exception) == [raised |-> exception, value |-> Null]

\* a missing Workspace (None)
NoWorkspace == [ref |-> Null, id |-> Null, idx |-> Null, output |-> "", is_focused |-> FALSE,
                is_urgent |-> FALSE, last_focus_time |-> 0]

\* get_workspace: self.workspaces.get(workspace_id, None)
get_workspace(S, workspace_id) ==
    IF workspace_id \in Keys(S.workspaces) THEN Get(S.workspaces, workspace_id)
    ELSE NoWorkspace

\* get_active_workspace: None until the first snapshot, then
\* self.workspaces[self.active_workspace]
get_active_workspace(S) ==
    IF ~S.workspaces_loaded THEN Returns(NoWorkspace)
    ELSE IF S.active_workspace \in Keys(S.workspaces)
         THEN Returns(Get(S.workspaces, S.active_workspace))
         ELSE Raises("KeyError")

\* sorted(..., key=attrgetter("last_focus_time"), reverse=True): stable, so
\* windows of equal focus time keep the order of the dict
RECURSIVE insert_sorted(_, _)
insert_sorted(sorted, w) ==
    IF sorted = <<>> THEN <<w>>
    ELSE IF Head(sorted).last_focus_time >= w.last_focus_time
         THEN <<Head(sorted)>> \o insert_sorted(Tail(sorted), w)
         ELSE <<w>> \o sorted

\* the windows in the order of the dict, not sorted
unsorted(list) == list

RECURSIVE sorted_by_focus(_)
sorted_by_focus(list) ==
    IF list = <<>> THEN <<>>
    ELSE insert_sorted(sorted_by_focus(SubSeq(list, 1, Len(list) - 1)), list[Len(list)])

\* get_n_windows(active_workspace, active_output)
get_n_windows(S, by_active_workspace, active_output) ==
    IF ~S.windows_loaded THEN Returns(0)
    ELSE LET current == get_active_workspace(S)
             current_workspace == current.value
             counted(window) ==
                 LET workspace == get_workspace(S, window.workspace_id)
                 IN /\ workspace # NoWorkspace
                    /\ by_active_workspace => window.workspace_id = current_workspace.id
                    /\ ~active_output \/ workspace.output = current_workspace.output
         IN IF current.raised # "none" THEN current
            ELSE IF current_workspace = NoWorkspace THEN Returns(0)
            ELSE Returns(Len(SelectSeq(Values(S.windows), counted)))

\* get_windows applying the active-workspace filter also when a workspace_id
\* is given
get_windows_filters_both(S, by_active_workspace, workspace_id, active_output) ==
    LET current == IF active_output THEN get_active_workspace(S) ELSE Returns(NoWorkspace)
        current_workspace == current.value
        on_output(w) == get_workspace(S, w.workspace_id) # NoWorkspace
        f(w) == ~active_output
                \/ (on_output(w) /\ get_workspace(S, w.workspace_id).output
                                       = current_workspace.output)
        on_active(w) == ~by_active_workspace
                        \/ w.workspace_id = NoId \/ w.workspace_id = S.active_workspace
        on_given(w) == workspace_id = Null
                       \/ w.workspace_id = NoId \/ w.workspace_id = workspace_id
        passes(w) == f(w) /\ on_active(w) /\ on_given(w)
    IN IF current.raised # "none" THEN current
       ELSE IF active_output /\ current_workspace = NoWorkspace
               /\ \E i \in DOMAIN S.windows : on_output(S.windows[i].val)
            THEN Raises("AttributeError")
       ELSE Returns(sorted_by_focus(SelectSeq(Values(S.windows), passes)))

\* get_windows(active_workspace, workspace_id, active_output): the filters,
\* then the sort; workspace_id is Null when the argument is not given
get_windows(S, by_active_workspace, workspace_id, active_output) ==
    LET current == IF active_output THEN get_active_workspace(S) ELSE Returns(NoWorkspace)
        current_workspace == current.value
        on_output(w) == get_workspace(S, w.workspace_id) # NoWorkspace
        f(w) == ~active_output
                \/ (on_output(w) /\ get_workspace(S, w.workspace_id).output
                                       = current_workspace.output)
        on_active(w) == ~(by_active_workspace /\ workspace_id = Null)
                        \/ w.workspace_id = NoId \/ w.workspace_id = S.active_workspace
        on_given(w) == workspace_id = Null
                       \/ w.workspace_id = NoId \/ w.workspace_id = workspace_id
        passes(w) == f(w) /\ on_active(w) /\ on_given(w)
    IN IF current.raised # "none" THEN current
       \* current_workspace.output on None, for a window on a tracked workspace
       ELSE IF active_output /\ current_workspace = NoWorkspace
               /\ \E i \in DOMAIN S.windows : on_output(S.windows[i].val)
            THEN Raises("AttributeError")
       ELSE Returns(sorted_by_focus(SelectSeq(Values(S.windows), passes)))

\* ----------------------------------------------------------- the transport
Transport ==
    [n_failed_connection_attempts |-> n_failed_connection_attempts,
     pending_reads                |-> pending_reads,
     error_logs                   |-> error_logs]

\* what a read completion did: the store and transport it left, the exception
\* that escaped it, the notifications and the steps in the order they ran
Completion(S, T, raised, emitted, trace, timed) ==
    [store |-> S, transport |-> T, raised |-> raised, emitted |-> emitted,
     trace |-> trace, timed |-> timed]

\* _queue_next_line_read: one more async read is outstanding
queue_next_line_read(T) == [T EXCEPT !.pending_reads = @ + 1]

\* _start_socket_connection: connect, subscribe, reset the counter, queue a
\* read; on GLib.GError log the error and raise it again
start_socket_connection(S, T, connect_ok) ==
    IF connect_ok
    THEN Completion(S, queue_next_line_read([T EXCEPT !.n_failed_connection_attempts = 0]),
                    "none", <<>>, <<"connect", "subscribe", "queue_next_line_read">>, FALSE)
    ELSE Completion(S, [T EXCEPT !.error_logs = @ + 1],
                    "GError", <<>>, <<"connect", "log_error">>, FALSE)

\* the steps of _process_event: the mutation, then one emit per notification
process_trace(p) == <<"process_event">> \o [i \in DOMAIN p.emitted |-> "emit"]

\* the except branch queueing a read of its own after the reconnect
on_read_error_requeues(S, T, connect_ok) ==
    LET T1 == [T EXCEPT !.n_failed_connection_attempts = @ + 1]
        r == start_socket_connection(S, T1, connect_ok)
    IN IF T1.n_failed_connection_attempts < RetryLimit
       THEN [r EXCEPT !.transport = queue_next_line_read(@),
                      !.trace = @ \o <<"queue_next_line_read">>]
       ELSE Completion(S, [T1 EXCEPT !.error_logs = @ + 1], "none", <<>>,
                       <<"log_error">>, FALSE)

\* the except GLib.Error branch of _on_line_read
on_read_error(S, T, connect_ok) ==
    LET T1 == [T EXCEPT !.n_failed_connection_attempts = @ + 1]
    IN IF T1.n_failed_connection_attempts < RetryLimit
       THEN start_socket_connection(S, T1, connect_ok)
       ELSE Completion(S, [T1 EXCEPT !.error_logs = @ + 1], "none", <<>>,
                       <<"log_error">>, FALSE)

\* on_line with the next read queued before the event is processed
on_line_queues_first(S, T, result, t) ==
    CASE result.kind = "no_line" ->
           Completion(S, queue_next_line_read(T), "none", <<>>,
                      <<"queue_next_line_read">>, FALSE)
      [] result.kind = "malformed" ->
           Completion(S, queue_next_line_read(T), "JSONDecodeError", <<>>,
                      <<"queue_next_line_read">>, FALSE)
      [] result.kind = "event" ->
           LET p == process_event(S, result.obj, t)
           IN Completion(p.store, queue_next_line_read(T), p.raised, p.emitted,
                         <<"queue_next_line_read">> \o process_trace(p), p.timed)

\* on_line treating a read that yields no line as a failed read
on_line_eof_reconnects(S, T, result, t) ==
    CASE result.kind = "no_line" -> on_read_error(S, T, TRUE)
      [] result.kind = "malformed" ->
           Completion(S, T, "JSONDecodeError", <<>>, <<>>, FALSE)
      [] result.kind = "event" ->
           LET p == process_event(S, result.obj, t)
           IN IF p.raised = "none"
              THEN Completion(p.store, queue_next_line_read(T), "none", p.emitted,
                              process_trace(p) \o <<"queue_next_line_read">>, p.timed)
              ELSE Completion(p.store, T, p.raised, p.emitted, process_trace(p), p.timed)

\* the try block of _on_line_read once read_line_finish_utf8 has returned
on_line(S, T, result, t) ==
    CASE result.kind = "no_line" ->       \* None or "": "if line:" is false
           Completion(S, queue_next_line_read(T), "none", <<>>,
                      <<"queue_next_line_read">>, FALSE)
      [] result.kind = "malformed" ->     \* json.loads raises, nothing catches it
           Completion(S, T, "JSONDecodeError", <<>>, <<>>, FALSE)
      [] result.kind = "event" ->
           LET p == process_event(S, result.obj, t)
           IN IF p.raised = "none"
              THEN Completion(p.store, queue_next_line_read(T), "none", p.emitted,
                              process_trace(p) \o <<"queue_next_line_read">>, p.timed)
              ELSE Completion(p.store, T, p.raised, p.emitted, process_trace(p), p.timed)

\* _on_line_read(stream, result): the completion callback of the queued read
on_line_read(S, T, result, t, connect_ok) ==
    LET T0 == [T EXCEPT !.pending_reads = @ - 1]
    IN IF result.kind = "error"
       THEN on_read_error(S, T0, connect_ok)
       ELSE on_line(S, T0, result, t)

\* what a read can complete with
Results ==
         {[kind |-> "error"], [kind |-> "no_line"], [kind |-> "malformed"]}
    \cup [kind : {"event"}, obj : Events]

NoResult == [kind |-> "init"]

\* self._cycle_session = None
NoSession ==
    [app_id |-> "None", original_windows |-> <<>>, current_index |-> 0, timer_id |-> Null]

\* ------------------------------------------------------------- the machine
\* NiriWindowManager.__init__ with the socket reachable: empty maps, the
\* connection made and the first read queued
Init ==
    /\ windows = <<>>
    /\ workspaces = <<>>
    /\ active_workspace = NoId
    /\ active_window = NoId
    /\ windows_loaded = FALSE
    /\ workspaces_loaded = FALSE
    /\ n_failed_connection_attempts = 0
    /\ pending_reads = 1
    /\ error_logs = 0
    /\ now = 0
    /\ last = [result |-> NoResult, raised |-> "none", emitted |-> <<>>,
               trace |-> <<"connect", "subscribe", "queue_next_line_read">>,
               windows_before |-> {}]
    /\ consecutive_failures = 0
    /\ inbox = <<>>
    /\ arrived = 0
    /\ applied = <<>>
    /\ cycle_session = NoSession

\* the main loop runs the completion callback of the outstanding read; a
\* reading of time.time() in it is later than every earlier one
Complete(result, connect_ok) ==
    /\ pending_reads > 0
    /\ result.kind = "error" => consecutive_failures < MaxFailures
    /\ LET t == now + 1
           r == on_line_read(Store, Transport, result, t, connect_ok)
       IN /\ r.timed => t <= MaxTime
          /\ windows' = r.store.windows
          /\ workspaces' = r.store.workspaces
          /\ active_workspace' = r.store.active_workspace
          /\ active_window' = r.store.active_window
          /\ windows_loaded' = r.store.windows_loaded
          /\ workspaces_loaded' = r.store.workspaces_loaded
          /\ n_failed_connection_attempts' = r.transport.n_failed_connection_attempts
          /\ pending_reads' = r.transport.pending_reads
          /\ error_logs' = r.transport.error_logs
          /\ now' = IF r.timed THEN t ELSE now
          /\ last' = [result |-> result, raised |-> r.raised, emitted |-> r.emitted,
                      trace |-> r.trace, windows_before |-> Keys(windows)]
    /\ consecutive_failures' = IF result.kind = "error" THEN consecutive_failures + 1 ELSE 0

\* the read fails with GLib.Error; the reconnect it may start succeeds or not
ReadFails ==
    \E connect_ok \in BOOLEAN :
        Complete([kind |-> "error"], connect_ok) /\ UNCHANGED <<inbox, arrived, applied, cycle_session>>

ReadsNoLine ==
    Complete([kind |-> "no_line"], TRUE) /\ UNCHANGED <<inbox, arrived, applied, cycle_session>>

ReadsMalformedLine ==
    Complete([kind |-> "malformed"], TRUE) /\ UNCHANGED <<inbox, arrived, applied, cycle_session>>

Reads(alphabet) ==
    \E obj \in alphabet :
        Complete([kind |-> "event", obj |-> obj], TRUE) /\ UNCHANGED <<inbox, arrived, applied, cycle_session>>

ReadsEvent == Reads(Events)

\* time passes between two completions
Tick ==
    /\ now < MaxTime
    /\ now' = now + 1
    /\ UNCHANGED <<windows, workspaces, active_workspace, active_window, windows_loaded,
                   workspaces_loaded, n_failed_connection_attempts, pending_reads,
                   error_logs, last, consecutive_failures, inbox, arrived, applied, cycle_session>>

Next == ReadFails \/ ReadsNoLine \/ ReadsMalformedLine \/ ReadsEvent \/ Tick

Spec == Init /\ [][Next]_vars

\* the window map: window events, and the snapshot of workspace 1
WindowSpecEvents ==
    WindowEvents \cup {e \in WorkspacesChanged : Len(e.workspaces) = 1 /\ e.workspaces[1].id = 1}

ReadsWindowEvent == Reads(WindowSpecEvents)

NextWindows == ReadsNoLine \/ ReadsMalformedLine \/ ReadsWindowEvent \/ Tick

SpecWindows == Init /\ [][NextWindows]_vars

\* one window opened, changed, marked urgent or not, and closed, with every
\* payload of the wire format for it
ChangedEvents ==
    {e \in WindowOpenedOrChanged : e.window.id = 1 /\ ~e.window.is_focused}
    \cup {e \in WindowClosed \cup WindowUrgencyChanged : e.id = 1}

ReadsChangedEvent == Reads(ChangedEvents)

NextChanged == ReadsChangedEvent \/ Tick

SpecChanged == Init /\ [][NextChanged]_vars

\* the state the queries read: snapshots of two windows and of two
\* workspaces, then focus changes and workspace activations
QueryEvents ==
    {e \in WindowsChanged : Len(e.windows) = 2}
    \cup {e \in WorkspacesChanged : Len(e.workspaces) = 2}
    \cup {e \in WindowFocusChanged : e.id # Null}
    \cup WorkspaceActivated

ReadsQueryEvent == Reads(QueryEvents)

NextQueries == ReadsQueryEvent \/ Tick

SpecQueries == Init /\ [][NextQueries]_vars

\* the events beside the snapshots and the focus: a window on no workspace
\* opened, the snapshot of one workspace, the urgency of windows and
\* workspaces, and an object with a tag the manager does not know
SideEvents ==
    {e \in WindowOpenedOrChanged :
        e.window \in WindowPayloads /\ e.window.workspace_id = Null /\ ~e.window.is_focused}
    \cup {e \in WorkspacesChanged : Len(e.workspaces) = 1}
    \cup WindowUrgencyChanged \cup WorkspaceUrgencyChanged \cup KeyboardLayoutsChanged

ReadsSideEvent == Reads(SideEvents)

NextSide == ReadsSideEvent \/ Tick

SpecSide == Init /\ [][NextSide]_vars

\* the workspace map: snapshots with every payload of the wire format, and
\* activations
WorkspaceEvents == AllWorkspacesChanged \cup WorkspaceActivated

ReadsWorkspaceEvent == Reads(WorkspaceEvents)

NextWorkspaces == ReadsWorkspaceEvent \/ Tick

SpecWorkspaces == Init /\ [][NextWorkspaces]_vars

\* the snapshots: two workspaces, then two windows with every shape of entry
SnapshotEvents ==
    {e \in WorkspacesChanged : Len(e.workspaces) = 2}
    \cup {e \in WindowsChanged : Len(e.windows) = 2}
    \cup UnmarkedWindowsChanged

ReadsSnapshot == Reads(SnapshotEvents)

NextSnapshots == ReadsSnapshot \/ Tick

SpecSnapshots == Init /\ [][NextSnapshots]_vars

\* ------------------------------------------------------------ the commands
\* what can go wrong on the command socket
SocketFailures == {"address_unset", "connect_refused", "write_error", "read_error"}

\* niri_request(request): connect, write the request, read the reply; there
\* is no try/except, so an exception of connect_niri_socket (connect(None) is
\* a TypeError, a refused connection an OSError), of the write or of the
\* readline leaves the function
niri_request(request, failure) ==
    CASE failure = "none" -> "none"
      [] failure = "address_unset" -> "TypeError"
      [] OTHER -> "OSError"

\* Window.center, Window.focus, Window.close: one request each
Window_center(self, failure) == niri_request([Action |-> "CenterWindow", id |-> self.id], failure)
Window_focus(self, failure) == niri_request([Action |-> "FocusWindow", id |-> self.id], failure)
Window_close(self, failure) == niri_request([Action |-> "CloseWindow", id |-> self.id], failure)

\* a UI callback calls center, focus or close on a tracked window
Commands ==
    /\ \E i \in DOMAIN windows, method \in {"center", "focus", "close"},
          failure \in SocketFailures \cup {"none"} :
         LET self == windows[i].val
             raised == CASE method = "center" -> Window_center(self, failure)
                         [] method = "focus" -> Window_focus(self, failure)
                         [] method = "close" -> Window_close(self, failure)
         IN last' = [result |-> [kind |-> "command", method |-> method, id |-> self.id,
                                 failure |-> failure],
                     raised |-> raised, emitted |-> <<>>, trace |-> <<"niri_request">>,
                     windows_before |-> Keys(windows)]
    /\ UNCHANGED <<windows, workspaces, active_workspace, active_window, windows_loaded,
                   workspaces_loaded, n_failed_connection_attempts, pending_reads,
                   error_logs, now, consecutive_failures, inbox, arrived, applied, cycle_session>>

NextCommands == ReadsChangedEvent \/ Commands \/ Tick

SpecCommands == Init /\ [][NextCommands]_vars

\* --------------------------------------------------------------- the startup
\* NiriWindowManager.__init__: empty maps, flags and counter, then
\* _start_socket_connection, whose GLib.GError leaves the constructor
NiriWindowManager_init(connect_ok) ==
    start_socket_connection(
        [windows |-> <<>>, workspaces |-> <<>>, active_workspace |-> NoId,
         active_window |-> NoId, windows_loaded |-> FALSE, workspaces_loaded |-> FALSE],
        [n_failed_connection_attempts |-> 0, pending_reads |-> 0, error_logs |-> 0],
        connect_ok)

\* the state after the construction, with the event socket reachable or not
InitStartup ==
    \E connect_ok \in BOOLEAN :
        LET r == NiriWindowManager_init(connect_ok)
        IN /\ windows = r.store.windows
           /\ workspaces = r.store.workspaces
           /\ active_workspace = r.store.active_workspace
           /\ active_window = r.store.active_window
           /\ windows_loaded = r.store.windows_loaded
           /\ workspaces_loaded = r.store.workspaces_loaded
           /\ n_failed_connection_attempts = r.transport.n_failed_connection_attempts
           /\ pending_reads = r.transport.pending_reads
           /\ error_logs = r.transport.error_logs
           /\ now = 0
           /\ last = [result |-> NoResult, raised |-> r.raised, emitted |-> r.emitted,
                      trace |-> r.trace, windows_before |-> {}]
           /\ consecutive_failures = 0
           /\ inbox = <<>>
           /\ arrived = 0
           /\ applied = <<>>
    /\ cycle_session = NoSession

SpecStartup == InitStartup /\ [][NextSide]_vars

\* ------------------------------------------------- the buffered event stream
\* The compositor writes lines to the socket; Gio.DataInputStream hands them
\* to the read completions.  A failed read abandons the connection and what
\* was buffered on it.
StreamEvents ==
    {e \in WindowOpenedOrChanged :
        e.window \in WindowPayloads /\ e.window.workspace_id = Null /\ ~e.window.is_focused}
    \cup {e \in WindowClosed \cup WindowFocusChanged : e.id = 1}

StreamLines ==
    {[kind |-> "no_line"], [kind |-> "malformed"]} \cup [kind : {"event"}, obj : StreamEvents]

\* read_line_async / read_line_finish_utf8: the oldest buffered line
read_line(buffer) == Head(buffer)

Writes ==
    /\ arrived < MaxLines
    /\ \E line \in StreamLines :
         inbox' = Append(inbox, [seq |-> arrived + 1, result |-> line])
    /\ arrived' = arrived + 1
    /\ UNCHANGED <<windows, workspaces, active_workspace, active_window, windows_loaded,
                   workspaces_loaded, n_failed_connection_attempts, pending_reads,
                   error_logs, now, last, consecutive_failures, applied, cycle_session>>

ReadsBuffered ==
    /\ inbox # <<>>
    /\ Complete(read_line(inbox).result, TRUE)
    /\ inbox' = Tail(inbox)
    /\ applied' = Append(applied, read_line(inbox).seq)
    /\ UNCHANGED <<arrived, cycle_session>>

StreamFails ==
    /\ \E connect_ok \in BOOLEAN : Complete([kind |-> "error"], connect_ok)
    /\ inbox' = <<>>
    /\ UNCHANGED <<arrived, applied, cycle_session>>

NextStream == Writes \/ ReadsBuffered \/ StreamFails

SpecStream == Init /\ [][NextStream]_vars

\* ------------------------------------------------------- the cycle session
\* three windows; app_id is a string or None, and the two spellings of the
\* application differ in case only
CycleWindowIds == {1, 2, 3}
AppIds == {"term", "Term"}
NoAppId == "None"

\* str.lower() on the application ids
lower(s) == IF s = "Term" THEN "term" ELSE s

\* the snapshots of the three windows; the compositor focuses window 2 or
\* none
CyclePayloads ==
    {w \in [id : CycleWindowIds, workspace_id : {1}, app_id : AppIds \cup {NoAppId},
            title : {"a"}, is_urgent : {FALSE}, is_focused : BOOLEAN] :
        /\ w.id = 1 => w.app_id = "term" /\ ~w.is_focused
        /\ w.id = 2 => w.app_id = "Term"
        /\ w.id = 3 => w.app_id \in {"term", NoAppId} /\ ~w.is_focused}

CycleWindowLists ==
    {p \in CyclePayloads \X CyclePayloads \X CyclePayloads :
        p[1].id = 1 /\ p[2].id = 2 /\ p[3].id = 3}

CycleEvents ==
    [tag : {"WindowsChanged"}, windows : CycleWindowLists]
    \cup [tag : {"WindowClosed"}, id : CycleWindowIds]
    \cup [tag : {"WindowFocusChanged"}, id : {1, 3}]

\* get_windows_by_app_id(app_id): "w.app_id and ..." is false for None and ""
get_windows_by_app_id(S, app_id) ==
    LET matches(w) == w.app_id # NoAppId /\ w.app_id # "" /\ lower(w.app_id) = lower(app_id)
    IN sorted_by_focus(SelectSeq(Values(S.windows), matches))

\* CycleSession.__init__(app_id, windows): windows.copy() keeps the references
\* to the Window objects; of an object the session uses its id
CycleSession(app_id, app_windows) ==
    [app_id           |-> app_id,
     original_windows |-> [i \in DOMAIN app_windows |->
                             [ref |-> app_windows[i].ref, id |-> app_windows[i].id,
                              app_id |-> app_windows[i].app_id]],
     current_index    |-> 0,
     timer_id         |-> Null]

\* CycleSession.get_current_window(): a Python list index, from 0
get_current_window(self) == self.original_windows[self.current_index + 1]

\* CycleSession.cycle_next() advancing by two
cycle_next_skips(self) ==
    [self EXCEPT !.current_index = (@ + 2) % Len(self.original_windows)]

\* CycleSession.cycle_next()
cycle_next(self) ==
    [self EXCEPT !.current_index = (@ + 1) % Len(self.original_windows)]

\* CycleSession.extend_session(callback): the old timeout source is removed
\* and a new one added; timer_id is the id of the one source there is
extend_session(self) == [self EXCEPT !.timer_id = 1]

\* CycleSession.is_active()
is_active(self) == self.timer_id # Null

\* NiriswicherApp._end_cycle_session
end_cycle_session(session) == NoSession

\* next(i for i, w in enumerate(app_windows) if w.id == active_window_id),
\* -1 on StopIteration
current_window_idx(app_windows, active_window_id) ==
    IF \E i \in DOMAIN app_windows : app_windows[i].id = active_window_id
    THEN (CHOOSE i \in DOMAIN app_windows :
            /\ app_windows[i].id = active_window_id
            /\ \A j \in DOMAIN app_windows : app_windows[j].id = active_window_id => i <= j) - 1
    ELSE -1

\* what a cycleApplication call did: the session it left, the windows it
\* sent a focus command for, the exception focus() raised
Cycled(session, focused, raised, trace) ==
    [session |-> session, focused |-> focused, raised |-> raised, trace |-> trace]

\* _cycle_application_by_id(app_id), with the switcher window visible or not
cycle_application_by_id(S, session, app_id, visible, failure) ==
    LET app_windows == get_windows_by_app_id(S, app_id)
        create_new_session ==
            session = NoSession \/ session.app_id # app_id \/ ~is_active(session)
        started == [CycleSession(app_id, app_windows) EXCEPT
                       !.current_index = current_window_idx(app_windows, S.active_window)]
        cycled == cycle_next(IF create_new_session THEN started ELSE session)
        window_to_focus == get_current_window(cycled)
    IN IF visible THEN Cycled(session, <<>>, "none", <<>>)
       ELSE IF app_windows = <<>> THEN Cycled(session, <<>>, "none", <<>>)
       ELSE IF Len(app_windows) = 1
            THEN Cycled(session, <<app_windows[1]>>, Window_focus(app_windows[1], failure),
                        <<"focus">>)
       ELSE Cycled(extend_session(cycled), <<window_to_focus>>,
                   Window_focus(window_to_focus, failure),
                   (IF create_new_session THEN <<"new_session">> ELSE <<>>)
                       \o <<"cycle_next", "extend_session", "focus">>)

\* _handle_dbus_method for "cycleApplication": an exception of the call is
\* logged and answered with a DBus error
CycleApplication ==
    /\ \E app_id \in AppIds, visible \in BOOLEAN, failure \in {"none", "connect_refused"} :
         LET r == cycle_application_by_id(Store, cycle_session, app_id, visible, failure)
         IN /\ cycle_session' = r.session
            /\ last' = [result |-> [kind |-> "cycle", app_id |-> app_id, visible |-> visible,
                                    focused |-> r.focused, failure |-> failure],
                        raised |-> r.raised, emitted |-> <<>>, trace |-> r.trace,
                        windows_before |-> Keys(windows)]
    /\ UNCHANGED <<windows, workspaces, active_workspace, active_window, windows_loaded,
                   workspaces_loaded, n_failed_connection_attempts, pending_reads,
                   error_logs, now, consecutive_failures, inbox, arrived, applied>>

\* the main loop runs the timeout callback _end_cycle_session of the timeout
\* source that is installed; the store's handlers read time.time(), which
\* this callback does not
SessionTimeout ==
    /\ cycle_session # NoSession
    /\ is_active(cycle_session)
    /\ cycle_session' = end_cycle_session(cycle_session)
    /\ last' = [result |-> [kind |-> "timeout"], raised |-> "none", emitted |-> <<>>,
                trace |-> <<"end_session">>, windows_before |-> Keys(windows)]
    /\ UNCHANGED <<windows, workspaces, active_workspace, active_window, windows_loaded,
                   workspaces_loaded, n_failed_connection_attempts, pending_reads,
                   error_logs, now, consecutive_failures, inbox, arrived, applied>>

ReadsCycleEvent == Reads(CycleEvents)

NextCycle == ReadsCycleEvent \/ CycleApplication \/ SessionTimeout

SpecCycle == Init /\ [][NextCycle]_vars

\* ---------------------------------------------------------------- the claims
\* the latest completion read an event with this tag
LastEvent(tag) == last.result.kind = "event" /\ last.result.obj.tag = tag

ListedIds(list) == {list[i].id : i \in DOMAIN list}

InTrace(step) == \E i \in DOMAIN last.trace : last.trace[i] = step

\* the step was the passing of time, not a read completion
TimePassed ==
    UNCHANGED <<windows, workspaces, active_workspace, active_window, windows_loaded,
                workspaces_loaded, n_failed_connection_attempts, pending_reads,
                error_logs, last, consecutive_failures, inbox, arrived, applied, cycle_session>>

StoreUnchanged ==
    UNCHANGED <<windows, workspaces, active_workspace, active_window, windows_loaded,
                workspaces_loaded>>

\* C1: after a WindowsChanged event listing N windows with distinct ids, the
\* window map holds exactly those N ids, each under its own key; every window
\* tracked before and not listed is gone; windows_loaded is true.
C1_SnapshotReplace ==
    LastEvent("WindowsChanged") =>
        LET listed == ListedIds(last.result.obj.windows)
        IN /\ Keys(windows) = listed
           /\ Len(windows) = Len(last.result.obj.windows)
           /\ \A k \in last.windows_before \ listed : k \notin Keys(windows)
           /\ \A i \in DOMAIN windows : windows[i].val.id = windows[i].key
           /\ windows_loaded

\* a snapshot of one window was applied while another window was tracked
C1_Witness ==
    /\ LastEvent("WindowsChanged")
    /\ Len(last.result.obj.windows) = 1
    /\ last.windows_before \ ListedIds(last.result.obj.windows) # {}

\* C2: after 3 read failures in a row (no line read in between, whether or not
\* the reconnects in between succeed) the manager has stopped: no read is
\* outstanding, the failing completion started no reconnect, and the fatal
\* error was logged exactly once; the same holds after a 4th failure.
C2_ReconnectBound ==
    consecutive_failures >= RetryLimit =>
        /\ pending_reads = 0
        /\ ~InTrace("connect")
        /\ error_logs = 1

\* C3: a line that is not valid JSON is skipped: the store and the failure
\* counter are unchanged, nothing is raised and the next read is queued.
C3_MalformedSkipped ==
    [][(~TimePassed /\ last'.result.kind = "malformed") =>
          /\ StoreUnchanged
          /\ n_failed_connection_attempts' = n_failed_connection_attempts
          /\ last'.raised = "none"
          /\ pending_reads' = 1]_vars

\* C4: after a line was read and its event handled, whatever its tag, ids and
\* payload, exactly one next read is outstanding and no exception left the
\* callback.
C4_ReadLoopContinues ==
    last.result.kind \in {"event", "no_line"} =>
        /\ pending_reads = 1
        /\ last.raised = "none"

\* C5: lines are applied in the order they arrived, one at a time: the arrival
\* numbers of the lines read increase (also across a reconnect), the event of
\* a completion is processed and its notifications emitted before the next
\* read is queued, and never more than one read is outstanding.
C5_FifoOrder ==
    /\ \A i, j \in DOMAIN applied : i < j => applied[i] < applied[j]
    /\ \A i, j \in DOMAIN last.trace :
          (last.trace[i] \in {"process_event", "emit"}
           /\ last.trace[j] = "queue_next_line_read") => i < j
    /\ pending_reads <= 1

\* two buffered lines were read with a reconnect in between (the line that
\* arrived between them was abandoned with its connection), and the latest
\* one emitted a notification and queued the next read
C5_Witness ==
    /\ \E i \in DOMAIN applied : i > 1 /\ applied[i] > applied[i - 1] + 1
    /\ last.emitted # <<>>
    /\ InTrace("queue_next_line_read")
    /\ pending_reads = 1

\* C6: before any WindowsChanged event has been applied, get_n_windows gives 0
\* and get_windows gives the empty list, for all arguments.
C6_LoadedGating ==
    ~windows_loaded =>
        \A by_active_workspace \in BOOLEAN, active_output \in BOOLEAN,
           workspace_id \in WorkspaceIds \cup {Null} :
            LET n == get_n_windows(Store, by_active_workspace, active_output)
                got == get_windows(Store, by_active_workspace, workspace_id, active_output)
            IN /\ n.raised = "none" /\ n.value = 0
               /\ got.raised = "none" /\ got.value = <<>>

\* C7: once workspaces_loaded is true, active_workspace is the id of a
\* workspace in the workspace map.
C7_ActiveWorkspaceTracked ==
    workspaces_loaded => active_workspace \in Keys(workspaces)

\* C8: each tracked window's workspace_id is -1 or the id of a workspace in
\* the workspace map.
C8_WindowWorkspaceTracked ==
    \A i \in DOMAIN windows :
        \/ windows[i].val.workspace_id = NoId
        \/ windows[i].val.workspace_id \in Keys(workspaces)

\* C9: with at most one focused workspace in every WorkspacesChanged payload,
\* at most one workspace of the workspace map has is_focused = true.
C9_OneFocusedWorkspace ==
    Cardinality({i \in DOMAIN workspaces : workspaces[i].val.is_focused}) <= 1

\* C10: WindowClosed(id) for an id that is not tracked changes no store field
\* and no counter, raises nothing, emits nothing and leaves the read loop
\* running; applying a WindowClosed a second time changes nothing more.
C10_ClosedUntrackedStep ==
    (/\ ~TimePassed
     /\ last'.result.kind = "event"
     /\ last'.result.obj.tag = "WindowClosed"
     /\ last'.result.obj.id \notin Keys(windows))
    => /\ StoreUnchanged
       /\ UNCHANGED <<n_failed_connection_attempts, error_logs, pending_reads>>
       /\ last'.emitted = <<>>
       /\ last'.raised = "none"

C10_ClosedTwice ==
    \A e \in WindowClosed :
        LET once == process_event(Store, e, now + 1)
            twice == process_event(once.store, e, now + 1)
        IN /\ twice.store = once.store
           /\ twice.emitted = <<>>
           /\ twice.raised = "none"

C10_IdempotentRemoval == [][C10_ClosedUntrackedStep]_vars /\ []C10_ClosedTwice

\* WindowClosed was read for an id that was not tracked, with another window
\* in the map
C10_Witness ==
    /\ LastEvent("WindowClosed")
    /\ last.result.obj.id \notin last.windows_before
    /\ windows # <<>>

\* the step is a read completion that handled an event with this tag
Completed(tag) ==
    /\ ~TimePassed
    /\ last'.result.kind = "event"
    /\ last'.result.obj.tag = tag

Refs(d) == {d[i].val.ref : i \in DOMAIN d}

\* the windows other than id are the same objects with the same fields
OthersUnchanged(id) ==
    \A k \in Keys(windows) \ {id} : k \in Keys(windows') /\ Get(windows', k) = Get(windows, k)

\* C11: WindowClosed(id) for a tracked id removes exactly that entry, leaves
\* every other window as it was, and emits "window-closed" exactly once,
\* carrying the window that was removed.
C11_ClosedTracked ==
    [][(Completed("WindowClosed") /\ last'.result.obj.id \in Keys(windows)) =>
          LET id == last'.result.obj.id
          IN /\ Keys(windows') = Keys(windows) \ {id}
             /\ Len(windows') = Len(windows) - 1
             /\ OthersUnchanged(id)
             /\ last'.emitted = <<Emit("window-closed", <<Get(windows, id).id>>)>>
             /\ last'.raised = "none"]_vars

\* WindowClosed was read for a tracked window, and another window stays
C11_Witness ==
    /\ LastEvent("WindowClosed")
    /\ last.result.obj.id \in last.windows_before
    /\ last.windows_before \ {last.result.obj.id} # {}
    /\ windows # <<>>

\* C12: WindowOpenedOrChanged for an id that is not tracked inserts a new
\* Window under that id and emits "window-opened" exactly once with it, and
\* nothing else.
C12_OpenedUntracked ==
    [][(Completed("WindowOpenedOrChanged") /\ last'.result.obj.window.id \notin Keys(windows)) =>
          LET id == last'.result.obj.window.id
          IN /\ Keys(windows') = Keys(windows) \cup {id}
             /\ Len(windows') = Len(windows) + 1
             /\ Get(windows', id).id = id
             /\ Get(windows', id).ref \notin Refs(windows)
             /\ OthersUnchanged(id)
             /\ last'.emitted = <<Emit("window-opened", <<id>>)>>
             /\ last'.raised = "none"]_vars

\* a window was opened next to one that was tracked already
C12_Witness ==
    /\ LastEvent("WindowOpenedOrChanged")
    /\ last.result.obj.window.id \notin last.windows_before
    /\ last.windows_before # {}
    /\ last.result.obj.window.id \in Keys(windows)

\* C13: WindowOpenedOrChanged for a tracked id keeps the map entry: the object
\* under the id is the one that was there (and it shows the update), the keys
\* and their order are unchanged, and "window-opened" is not emitted.
C13_ChangedInPlace ==
    [][(Completed("WindowOpenedOrChanged") /\ last'.result.obj.window.id \in Keys(windows)) =>
          LET id == last'.result.obj.window.id
          IN /\ [i \in DOMAIN windows' |-> windows'[i].key] = [i \in DOMAIN windows |-> windows[i].key]
             /\ Get(windows', id).ref = Get(windows, id).ref
             /\ Get(windows', id).last_focus_time = now'
             /\ OthersUnchanged(id)
             /\ \A i \in DOMAIN last'.emitted : last'.emitted[i].signal # "window-opened"
             /\ last'.raised = "none"]_vars

\* a window constructed by an earlier completion was changed
C13_Witness ==
    /\ LastEvent("WindowOpenedOrChanged")
    /\ last.result.obj.window.id \in last.windows_before
    /\ Get(windows, last.result.obj.window.id).ref < now
    /\ Get(windows, last.result.obj.window.id).last_focus_time = now

\* C14: after WindowOpenedOrChanged for a tracked id, the window's title,
\* workspace id and urgency flag are those of the payload (a null
\* workspace_id being -1), whatever the payload's values.
C14_PayloadApplied ==
    (LastEvent("WindowOpenedOrChanged") /\ last.result.obj.window.id \in last.windows_before) =>
        LET new == last.result.obj.window
            window == Get(windows, new.id)
        IN /\ window.title = new.title
           /\ window.workspace_id = (IF new.workspace_id = Null THEN NoId ELSE new.workspace_id)
           /\ window.is_urgent = new.is_urgent

\* C15: WindowFocusChanged(id) emits "window-focus-changed" exactly when id is
\* tracked: then active_window becomes id and the notification carries that
\* window, once; for an untracked id (null included) the maps, active_window
\* and the focus times are unchanged, nothing is emitted and nothing raised.
C15_FocusChangedIffTracked ==
    [][Completed("WindowFocusChanged") =>
          LET id == last'.result.obj.id
          IN /\ last'.raised = "none"
             /\ id \in Keys(windows) =>
                    /\ active_window' = id
                    /\ last'.emitted = <<Emit("window-focus-changed", <<id>>)>>
                    /\ Get(windows', id).ref = Get(windows, id).ref
             /\ id \notin Keys(windows) =>
                    /\ last'.emitted = <<>>
                    /\ UNCHANGED <<windows, workspaces, active_window, active_workspace>>]_vars

\* the focus moved to a tracked window that was not the active one
C15_Witness ==
    /\ LastEvent("WindowFocusChanged")
    /\ last.result.obj.id \in last.windows_before
    /\ active_window = last.result.obj.id
    /\ last.emitted # <<>>
    /\ Len(windows) = 2

\* C16: after WindowFocusChanged(id) for a tracked window, that window's
\* last_focus_time is greater than every other tracked window's, and
\* get_windows over all windows returns it first.
C16_FocusedIsMostRecent ==
    (LastEvent("WindowFocusChanged") /\ last.result.obj.id \in Keys(windows)) =>
        LET id == last.result.obj.id
            got == get_windows(Store, FALSE, Null, FALSE)
        IN /\ \A k \in Keys(windows) \ {id} :
                  Get(windows, id).last_focus_time > Get(windows, k).last_focus_time
           /\ got.raised = "none" /\ got.value[1].id = id

\* the arguments of a get_windows call
GetWindowsArgs ==
    [by_active_workspace : BOOLEAN, workspace_id : WorkspaceIds \cup {Null},
     active_output : BOOLEAN]

\* the ids of the windows that pass the filters of a call: on the given
\* workspace if one is given, else on the active one if asked for (a window
\* on no workspace passes both), and on a tracked workspace of the active
\* workspace's output if asked for
Passing(a) ==
    {w.id : w \in {windows[i].val : i \in DOMAIN windows
                     \ {i \in DOMAIN windows :
                           LET w == windows[i].val
                           IN \/ /\ a.workspace_id # Null
                                 /\ w.workspace_id \notin {NoId, a.workspace_id}
                              \/ /\ a.workspace_id = Null /\ a.by_active_workspace
                                 /\ w.workspace_id \notin {NoId, active_workspace}
                              \/ /\ a.active_output
                                 /\ \/ w.workspace_id \notin Keys(workspaces)
                                    \/ Get(workspaces, w.workspace_id).output
                                          # Get(workspaces, active_workspace).output}}}

\* C17: a get_windows call that returns puts the passing windows in
\* descending order of last_focus_time, each of them exactly once.
C17_SortedByFocus ==
    \A a \in GetWindowsArgs :
        LET got == get_windows(Store, a.by_active_workspace, a.workspace_id, a.active_output)
        IN got.raised = "none" =>
              /\ \A i, j \in DOMAIN got.value :
                    got.value[i].last_focus_time > got.value[j].last_focus_time => i < j
              /\ {got.value[i].id : i \in DOMAIN got.value} = Passing(a)
              /\ Len(got.value) = Cardinality(Passing(a))
              /\ \A i \in DOMAIN got.value : got.value[i] = Get(windows, got.value[i].id)

\* two windows pass, and the later one of the dict was focused more recently
C17_Witness ==
    LET got == get_windows(Store, TRUE, Null, TRUE)
    IN /\ got.raised = "none"
       /\ Len(got.value) = 2
       /\ got.value[1] = windows[2].val
       /\ got.value[1].last_focus_time > got.value[2].last_focus_time
       /\ workspaces_loaded

\* C18: WorkspaceActiveWindowChanged(workspace_id, active_window_id) sets
\* active_workspace to workspace_id and, when active_window_id is tracked,
\* makes it the active window, sets its focus time to the clock reading and
\* emits "window-focus-changed" with it.
C18_ActiveWindowChanged ==
    LastEvent("WorkspaceActiveWindowChanged") =>
        LET obj == last.result.obj
        IN /\ active_workspace = obj.workspace_id
           /\ obj.active_window_id \in Keys(windows) =>
                  /\ active_window = obj.active_window_id
                  /\ Get(windows, obj.active_window_id).last_focus_time = now
                  /\ last.emitted = <<Emit("window-focus-changed", <<obj.active_window_id>>)>>

\* what "workspace-activated" carries for a previous active id
PreviousOrNull(previous) == IF previous \in Keys(workspaces) THEN previous ELSE Null

\* C19: WorkspaceActivated(id) for a tracked workspace sets active_workspace
\* to id, raises that workspace's last_focus_time, and emits
\* "workspace-activated" exactly once with the workspace and the workspace
\* that was active before (null when the previous id is not tracked).
C19_ActivatedTracked ==
    [][(Completed("WorkspaceActivated") /\ last'.result.obj.id \in Keys(workspaces)) =>
          LET id == last'.result.obj.id
          IN /\ active_workspace' = id
             /\ Get(workspaces', id).last_focus_time > Get(workspaces, id).last_focus_time
             /\ last'.emitted =
                   <<Emit("workspace-activated", <<id, PreviousOrNull(active_workspace)>>)>>
             /\ last'.raised = "none"]_vars

\* C20: WorkspaceActivated(id), also for an id that is not in the workspace
\* map, raises nothing, makes id the active workspace, emits
\* "workspace-activated" once, and leaves the read loop and the queries
\* working.
C20_ActivationTolerated ==
    LastEvent("WorkspaceActivated") =>
        /\ last.raised = "none"
        /\ active_workspace = last.result.obj.id
        /\ Len(last.emitted) = 1 /\ last.emitted[1].signal = "workspace-activated"
        /\ pending_reads = 1
        /\ get_active_workspace(Store).raised = "none"

\* the workspaces other than id are unchanged
OtherWorkspacesUnchanged(id) ==
    \A k \in Keys(workspaces) \ {id} :
        k \in Keys(workspaces') /\ Get(workspaces', k) = Get(workspaces, k)

KeyOrder(d) == [i \in DOMAIN d |-> d[i].key]

\* C21 for windows: the event emits "window-urgency-changed" exactly when the
\* id is tracked; then the window's is_urgent is the event's and nothing else
\* changes; else nothing changes at all
C21_WindowUrgency ==
    Completed("WindowUrgencyChanged") =>
        LET obj == last'.result.obj
        IN /\ last'.raised = "none"
           /\ UNCHANGED <<workspaces, active_workspace, active_window, windows_loaded,
                          workspaces_loaded>>
           /\ obj.id \in Keys(windows) =>
                  /\ last'.emitted = <<Emit("window-urgency-changed", <<obj.id>>)>>
                  /\ KeyOrder(windows') = KeyOrder(windows)
                  /\ Get(windows', obj.id) = [Get(windows, obj.id) EXCEPT !.is_urgent = obj.urgent]
                  /\ OthersUnchanged(obj.id)
           /\ obj.id \notin Keys(windows) =>
                  last'.emitted = <<>> /\ UNCHANGED windows

\* C21 for workspaces
C21_WorkspaceUrgency ==
    Completed("WorkspaceUrgencyChanged") =>
        LET obj == last'.result.obj
        IN /\ last'.raised = "none"
           /\ UNCHANGED <<windows, active_workspace, active_window, windows_loaded,
                          workspaces_loaded>>
           /\ obj.id \in Keys(workspaces) =>
                  /\ last'.emitted = <<Emit("workspace-urgency-changed", <<obj.id>>)>>
                  /\ KeyOrder(workspaces') = KeyOrder(workspaces)
                  /\ Get(workspaces', obj.id)
                        = [Get(workspaces, obj.id) EXCEPT !.is_urgent = obj.urgent]
                  /\ OtherWorkspacesUnchanged(obj.id)
           /\ obj.id \notin Keys(workspaces) =>
                  last'.emitted = <<>> /\ UNCHANGED workspaces

\* C21: for windows and for workspaces, UrgencyChanged(id, urgent) emits its
\* notification if and only if id is tracked: when tracked, the entity's
\* is_urgent equals urgent afterwards and nothing else in the store changes;
\* when untracked, the store is unchanged, nothing is emitted, nothing raised.
C21_UrgencyIffTracked == [][C21_WindowUrgency /\ C21_WorkspaceUrgency]_vars

\* an urgent workspace was told to be no longer urgent, with a window tracked
C21_Witness ==
    /\ LastEvent("WorkspaceUrgencyChanged")
    /\ ~last.result.obj.urgent
    /\ last.emitted # <<>>
    /\ ~Get(workspaces, last.result.obj.id).is_urgent
    /\ windows # <<>>

\* C22: an event object whose key is none of the known tags changes neither
\* the maps, the active ids, the loaded flags nor the failure counter, emits
\* nothing, raises nothing, and the next read is queued.
C22_UnknownTagIgnored ==
    [][Completed("KeyboardLayoutsChanged") =>
          /\ StoreUnchanged
          /\ UNCHANGED <<n_failed_connection_attempts, error_logs>>
          /\ last'.emitted = <<>>
          /\ last'.raised = "none"
          /\ pending_reads' = 1]_vars

\* the unknown object was read while a window and a workspace were tracked
C22_Witness ==
    /\ LastEvent("KeyboardLayoutsChanged")
    /\ windows # <<>>
    /\ workspaces # <<>>
    /\ pending_reads = 1

\* the decimal digits of a workspace's idx
Digits == <<"0", "1">>

\* the entries of a snapshot that are marked focused
Focused(list) == {i \in DOMAIN list : IsMarkedFocused(list[i])}

\* C23: after a WorkspacesChanged event with exactly one focused workspace,
\* workspaces_loaded is true, active_workspace is that workspace's id, and
\* get_active_workspace returns the Workspace just constructed for it, whose
\* identifier is "{output}-{idx}", or "{idx}" for a workspace on no output.
C23_FocusedSnapshot ==
    [][(/\ Completed("WorkspacesChanged")
        /\ Cardinality(Focused(last'.result.obj.workspaces)) = 1) =>
          LET list == last'.result.obj.workspaces
              workspace == list[CHOOSE i \in Focused(list) : TRUE]
              got == get_active_workspace(Store')
          IN /\ workspaces_loaded'
             /\ active_workspace' = workspace.id
             /\ got.raised = "none"
             /\ got.value.id = workspace.id
             /\ got.value.ref = now' /\ got.value.ref \notin Refs(workspaces)
             /\ got.value.output = workspace.output /\ got.value.is_focused
             /\ identifier(got.value) =
                   (IF workspace.output = NoOutput THEN Digits[workspace.idx + 1]
                    ELSE IF workspace.output = "eDP-1"
                         THEN "eDP-1-" \o Digits[workspace.idx + 1]
                         ELSE "HDMI-1-" \o Digits[workspace.idx + 1])]_vars

\* a second snapshot moved the focus to a workspace on no output
C23_Witness ==
    /\ LastEvent("WorkspacesChanged")
    /\ Cardinality(Focused(last.result.obj.workspaces)) = 1
    /\ Len(workspaces) = 2
    /\ get_active_workspace(Store).value.output = NoOutput
    /\ identifier(get_active_workspace(Store).value) = "1"
    /\ \E i \in DOMAIN workspaces : workspaces[i].val.ref < now

\* where the window with this id stands in a list of windows (0: nowhere)
Position(list, id) ==
    IF \E i \in DOMAIN list : list[i].id = id
    THEN CHOOSE i \in DOMAIN list : list[i].id = id
    ELSE 0

\* C24: after a WindowsChanged snapshot with one window marked focused (the
\* other entries unfocused or without is_focused), the focused window being
\* on the active workspace, active_window is the focused window's id and
\* get_windows(active_workspace=True) returns it before every other window
\* of the snapshot on the active workspace.
C24_FocusedFirst ==
    (/\ LastEvent("WindowsChanged")
     /\ Cardinality(Focused(last.result.obj.windows)) = 1
     /\ workspaces_loaded
     /\ \E i \in Focused(last.result.obj.windows) :
           last.result.obj.windows[i].workspace_id = active_workspace) =>
        LET list == last.result.obj.windows
            window == list[CHOOSE i \in Focused(list) : TRUE]
            got == get_windows(Store, TRUE, Null, FALSE)
        IN /\ active_window = window.id
           /\ got.raised = "none"
           /\ Position(got.value, window.id) = 1
           /\ \A i \in DOMAIN list :
                 (list[i].id # window.id /\ list[i].workspace_id = active_workspace) =>
                     Position(got.value, list[i].id) > 1

\* C25: get_active_workspace never raises: it returns None while
\* workspaces_loaded is false and the workspace whose id is active_workspace
\* afterwards.
C25_ActiveWorkspaceNeverRaises ==
    LET got == get_active_workspace(Store)
    IN /\ got.raised = "none"
       /\ ~workspaces_loaded => got.value = NoWorkspace
       /\ workspaces_loaded => got.value.id = active_workspace

IdsOf(list) == {list[i].id : i \in DOMAIN list}

\* C26: a tracked window whose workspace id is -1 is in the result of
\* get_windows for every combination of the arguments (whenever the call
\* returns a result).
C26_SentinelAlwaysIncluded ==
    \A a \in GetWindowsArgs :
        LET got == get_windows(Store, a.by_active_workspace, a.workspace_id, a.active_output)
        IN got.raised = "none" =>
              \A i \in DOMAIN windows :
                  windows[i].val.workspace_id = NoId => windows[i].val.id \in IdsOf(got.value)

\* the windows on a workspace, with the windows on none
OnWorkspace(workspace_id) ==
    {windows[i].val.id : i \in {j \in DOMAIN windows :
                                  windows[j].val.workspace_id \in {workspace_id, NoId}}}

\* C27: with a workspace_id given and active_output false, get_windows
\* returns exactly the tracked windows on that workspace or on none, whatever
\* the active_workspace flag and the active workspace.
C27_ExplicitWorkspace ==
    \A by_active_workspace \in BOOLEAN, workspace_id \in WorkspaceIds :
        LET got == get_windows(Store, by_active_workspace, workspace_id, FALSE)
        IN /\ got.raised = "none"
           /\ IdsOf(got.value) = OnWorkspace(workspace_id)
           /\ Len(got.value) = Cardinality(OnWorkspace(workspace_id))

\* a window on workspace 2 is returned for workspace_id = 2 while workspace 1
\* is active, and the other window, on workspace 1, is not
C27_Witness ==
    /\ active_workspace = 1
    /\ Len(windows) = 2
    /\ Len(get_windows(Store, TRUE, 2, FALSE).value) = 1
    /\ get_windows(Store, TRUE, 2, FALSE).value[1].workspace_id = 2
    /\ Len(get_windows(Store, TRUE, Null, FALSE).value) = 1

\* C28: once both snapshots have loaded, get_n_windows(active_workspace,
\* active_output) is the length of get_windows(active_workspace, None,
\* active_output), for all arguments for which both calls return.
C28_CountMatchesList ==
    (windows_loaded /\ workspaces_loaded) =>
        \A by_active_workspace \in BOOLEAN, active_output \in BOOLEAN :
            LET n == get_n_windows(Store, by_active_workspace, active_output)
                got == get_windows(Store, by_active_workspace, Null, active_output)
            IN (n.raised = "none" /\ got.raised = "none") => n.value = Len(got.value)

\* C29: a focus, close or center whose request fails (address unset, connect
\* refused, write or read error) raises nothing to its caller and leaves the
\* store unchanged.
C29_CommandFailureContained ==
    [][(~TimePassed /\ last'.result.kind = "command" /\ last'.result.failure # "none") =>
          /\ last'.raised = "none"
          /\ StoreUnchanged]_vars

\* C30: when the first connection to the event socket fails, the constructor
\* raises nothing and leaves a manager with empty maps, both loaded flags
\* false and no read queued, whose queries give empty results.
C30_DegradedStart ==
    (last.result = NoResult /\ ~InTrace("queue_next_line_read")) =>
        /\ last.raised = "none"
        /\ windows = <<>> /\ workspaces = <<>>
        /\ ~windows_loaded /\ ~workspaces_loaded
        /\ pending_reads = 0
        /\ get_n_windows(Store, TRUE, FALSE) = Returns(0)
        /\ get_windows(Store, TRUE, Null, FALSE) = Returns(<<>>)

\* the positions of a step in what the latest completion did
Steps(step) == {i \in DOMAIN last.trace : last.trace[i] = step}

\* C31: on every event-stream connection, the first one and each reconnect,
\* the steps are in this order: connect, write the subscription once,
\* half-close the write side, then issue the first read; no read is issued on
\* a connection whose write side is open.
C31_SubscribeOrder ==
    (InTrace("connect") /\ InTrace("queue_next_line_read")) =>
        /\ Cardinality(Steps("subscribe")) = 1
        /\ \E i \in Steps("connect"), j \in Steps("subscribe"), k \in Steps("half_close"),
              l \in Steps("queue_next_line_read") : i < j /\ j < k /\ k < l
        /\ \A l \in Steps("queue_next_line_read") : \E k \in Steps("half_close") : k < l

\* C32: WorkspacesChanged replaces only the entries its payload names: each
\* named id maps afterwards to a newly constructed Workspace (is_urgent and
\* last_focus_time of the earlier one are not carried over), every other
\* workspace stays in the map with all its fields, and the key set never
\* shrinks.
C32_NamedEntriesReplaced ==
    [][/\ Keys(workspaces) \subseteq Keys(workspaces')
       /\ Completed("WorkspacesChanged") =>
             LET list == last'.result.obj.workspaces
             IN /\ Keys(workspaces') = Keys(workspaces) \cup IdsOf(list)
                /\ \A k \in Keys(workspaces) \ IdsOf(list) :
                       Get(workspaces', k) = Get(workspaces, k)
                /\ \A i \in DOMAIN list :
                       LET workspace == Get(workspaces', list[i].id)
                       IN /\ workspace.ref = now' /\ workspace.ref \notin Refs(workspaces)
                          /\ ~workspace.is_urgent
                          /\ workspace.last_focus_time
                                = (IF list[i].is_focused THEN now' + Second ELSE now')
                          /\ workspace.output = list[i].output
                          /\ workspace.is_focused = list[i].is_focused]_vars

\* a snapshot named one workspace while the other one, tracked and urgent,
\* was not named
C32_Witness ==
    /\ LastEvent("WorkspacesChanged")
    /\ Len(last.result.obj.workspaces) = 1
    /\ Len(workspaces) = 2
    /\ \E i \in DOMAIN workspaces :
          /\ workspaces[i].key \notin IdsOf(last.result.obj.workspaces)
          /\ workspaces[i].val.is_urgent
          /\ workspaces[i].val.ref < now

\* C33: active_window is -1 or the id of a window in the window map, in
\* every reachable state.
C33_ActiveWindowTracked ==
    active_window = NoId \/ active_window \in Keys(windows)

\* C34: every entry of the window map and of the workspace map is stored
\* under its own id, and no step changes the id of an object that stays in
\* its map.
C34_StoredUnderOwnId ==
    /\ [](/\ \A i \in DOMAIN windows : windows[i].val.id = windows[i].key
          /\ \A i \in DOMAIN workspaces : workspaces[i].val.id = workspaces[i].key)
    /\ [][(\A i \in DOMAIN windows, j \in DOMAIN windows' :
                (windows[i].key = windows'[j].key /\ windows[i].val.ref = windows'[j].val.ref)
                    => windows'[j].val.id = windows[i].val.id)
           /\
           (\A i \in DOMAIN workspaces, j \in DOMAIN workspaces' :
                (workspaces[i].key = workspaces'[j].key
                    /\ workspaces[i].val.ref = workspaces'[j].val.ref)
                    => workspaces'[j].val.id = workspaces[i].val.id)]_vars

\* a tracked window changed in place on a workspace other than its id, beside
\* another window
C34_Witness ==
    /\ LastEvent("WindowOpenedOrChanged")
    /\ last.result.obj.window.id \in last.windows_before
    /\ last.raised = "none"
    /\ Get(windows, last.result.obj.window.id).ref < now
    /\ Get(windows, last.result.obj.window.id).workspace_id
           \notin {NoId, last.result.obj.window.id}
    /\ Len(windows) = 2

\* a read completion ran in this step
CompletionStep == applied' # applied \/ consecutive_failures' # consecutive_failures

\* C35: at most one read is outstanding at any moment; a completion consumes
\* the outstanding read and queues at most one read; it connects at most once
\* and only after a failed read, and a successful reconnect queues its one
\* read after connecting and leaves nothing of the abandoned connection to be
\* delivered; once no read is outstanding none is ever queued again.
C35_OneOutstandingRead ==
    /\ [](pending_reads \in {0, 1})
    /\ [][pending_reads = 0 => pending_reads' = 0]_vars
    /\ [][CompletionStep =>
            LET queued == Cardinality(Steps("queue_next_line_read")')
                connects == Cardinality(Steps("connect")')
            IN /\ pending_reads = 1
               /\ queued \in {0, 1}
               /\ pending_reads' = queued
               /\ connects \in {0, 1}
               /\ connects = 1 => last'.result.kind = "error"
               /\ (connects = 1 /\ last'.raised = "none") =>
                     /\ queued = 1
                     /\ \A i \in Steps("connect")', j \in Steps("queue_next_line_read")' : i < j
                     /\ inbox' = <<>>]_vars

\* a successful reconnect after lines were applied, with lines of the
\* abandoned connection never delivered
C35_Witness ==
    /\ last.result.kind = "error"
    /\ InTrace("connect")
    /\ last.raised = "none"
    /\ pending_reads = 1
    /\ applied # <<>>
    /\ arrived > Len(applied)

\* C36: a read completing with no line leaves the store, the failure counter
\* and the error log as they were, queues exactly one next read without
\* connecting again, and lets no exception out.
C36_NoLineRequeues ==
    [][(CompletionStep /\ last'.result.kind = "no_line") =>
          /\ Store' = Store
          /\ n_failed_connection_attempts' = n_failed_connection_attempts
          /\ error_logs' = error_logs
          /\ last'.trace = <<"queue_next_line_read">>
          /\ last'.raised = "none"
          /\ last'.emitted = <<>>
          /\ pending_reads' = 1]_vars

\* a read with no line completed while windows were tracked and more lines
\* were buffered on the connection
C36_Witness ==
    /\ last.result.kind = "no_line"
    /\ windows # <<>>
    /\ pending_reads = 1
    /\ inbox # <<>>
    /\ applied # <<>>

\* C37: when a read fails and the reconnect it starts fails too, no exception
\* leaves the completion callback, and while fewer than 3 attempts have
\* failed the loop has not ended.
C37_FailedReconnectContained ==
    (last.result.kind = "error" /\ InTrace("connect") /\ ~InTrace("subscribe")) =>
        /\ last.raised = "none"
        /\ n_failed_connection_attempts < RetryLimit => pending_reads = 1

\* a cycleApplication call ran in this step
CycleStep == last'.result.kind = "cycle" /\ (last' # last \/ cycle_session' # cycle_session)

\* the ids of the windows that k consecutive cycleApplication calls focus
RECURSIVE ConsecutiveCalls(_, _, _)
ConsecutiveCalls(session, app_id, k) ==
    IF k = 0 THEN <<>>
    ELSE LET r == cycle_application_by_id(Store, session, app_id, FALSE, "none")
         IN <<r.focused[1].id>> \o ConsecutiveCalls(r.session, app_id, k - 1)

C39_FocusedTracked ==
    last.result.kind = "cycle" =>
        \A i \in DOMAIN last.result.focused :
            LET w == last.result.focused[i]
            IN /\ w.id \in Keys(windows)
               /\ Get(windows, w.id).app_id # NoAppId
               /\ lower(Get(windows, w.id).app_id) = lower(last.result.app_id)

====
